---- MODULE Spec2Model ----
(***************************************************************************)
(* analyze-trace.js: the trace-event classifier, the blocking-time rule,   *)
(* the per-run task aggregator, the multi-run report merger and the        *)
(* analyzeTrace run that reads the report file, merges and writes it back. *)
(*                                                                         *)
(* Representation.  A JavaScript string is a sequence of one-character     *)
(* strings, so that includes, split, trim, toLowerCase and the             *)
(* concatenation name + "|" + url are computed character by character.     *)
(* The only multi-character elements are the fixed header texts of the     *)
(* report ("Task Name", "Run ", " (Blocking Time)", ...), which contain no *)
(* tab, no newline and no "|".  An absent string field of an event is the  *)
(* empty sequence: every use in the source (&&, ||, ?.) treats undefined   *)
(* and "" alike.  Durations are integer microseconds; a millisecond value  *)
(* x of the source (event.dur / 1000 and sums of it) is held as the        *)
(* integer 1000 * x.                                                       *)
(*                                                                         *)
(* Outside the model: console output and the --debug listing (they change  *)
(* no state), I/O errors of the report write, and names, URLs or           *)
(* categories that hold a tab or a newline (the report format does not     *)
(* escape them).  The durations of the inputs are such that toFixed(2)     *)
(* never rounds at a binary floating-point tie.                            *)
(*                                                                         *)
(* Specifications: Spec, runs on traces that parse, i.e. the sequential    *)
(* merges into one report file; RunSpec, runs on any trace, the failing    *)
(* ones included; AggSpec, processTraceEvents on bounded event sequences;  *)
(* ClassifySpec, isPotentialTBTTask and calculateBlockingTime on single    *)
(* events.                                                                 *)
(***************************************************************************)
EXTENDS Integers, Sequences, FiniteSets, TLC

VARIABLES
  diskExists,  \* fs.existsSync(reportPath)
  disk,        \* content of the report file (a string)
  report,      \* updatedReport of the last run that reached the merge
  runs,        \* history: the task list of every run merged so far
  input,       \* what kind of trace file the last run was given
  status,      \* how the last analyzeTrace run ended
  exitCode,    \* process exit status of the last run
  wrote,       \* whether the last run called writeReport
  events,      \* aggregator input: the event sequence
  extra,       \* aggregator input: one more event
  pos,         \* aggregator input: where the extra event is inserted
  tasks,       \* processTraceEvents(events)
  tasksPlus,   \* processTraceEvents(events with extra inserted at pos)
  event,       \* classifier input
  verdict,     \* isPotentialTBTTask(event)
  blocking,    \* calculateBlockingTime(event), in microseconds
  pc           \* position of the pure-function harnesses

vars == <<diskExists, disk, report, runs, input, status, exitCode, wrote,
          events, extra, pos, tasks, tasksPlus, event, verdict, blocking, pc>>

(***************************************************************************)
(* Bounds                                                                  *)
(***************************************************************************)
MaxRuns == 3         \* runs merged into one report
MaxTotalEvents == 4  \* events over all the runs of one report
MaxEvents == 2       \* events of one aggregator input

(***************************************************************************)
(* String primitives                                                       *)
(***************************************************************************)
UpperToLower ==
  "A" :> "a" @@ "B" :> "b" @@ "C" :> "c" @@ "D" :> "d" @@ "E" :> "e" @@ "F" :> "f" @@
  "G" :> "g" @@ "H" :> "h" @@ "I" :> "i" @@ "J" :> "j" @@ "K" :> "k" @@ "L" :> "l" @@
  "M" :> "m" @@ "N" :> "n" @@ "O" :> "o" @@ "P" :> "p" @@ "Q" :> "q" @@ "R" :> "r" @@
  "S" :> "s" @@ "T" :> "t" @@ "U" :> "u" @@ "V" :> "v" @@ "W" :> "w" @@ "X" :> "x" @@
  "Y" :> "y" @@ "Z" :> "z"

Lower(c) == IF c \in DOMAIN UpperToLower THEN UpperToLower[c] ELSE c

toLowerCase(s) == [i \in 1..Len(s) |-> Lower(s[i])]

includes(s, p) ==
  \E i \in 0..(Len(s) - Len(p)) : SubSeq(s, i + 1, i + Len(p)) = p

IsSpace(c) == c \in {" ", "\t", "\n"}

RECURSIVE trimStart(_)
trimStart(s) ==
  IF s # <<>> /\ IsSpace(Head(s)) THEN trimStart(Tail(s)) ELSE s

RECURSIVE trimEnd(_)
trimEnd(s) ==
  IF s # <<>> /\ IsSpace(s[Len(s)]) THEN trimEnd(SubSeq(s, 1, Len(s) - 1)) ELSE s

trim(s) == trimEnd(trimStart(s))

RECURSIVE split(_, _)
split(s, sep) ==
  IF \A i \in 1..Len(s) : s[i] # sep
  THEN <<s>>
  ELSE LET i == CHOOSE k \in 1..Len(s) :
                  s[k] = sep /\ \A j \in 1..(k - 1) : s[j] # sep
       IN  <<SubSeq(s, 1, i - 1)>> \o split(SubSeq(s, i + 1, Len(s)), sep)

RECURSIVE join(_, _)
join(parts, sep) ==
  IF parts = <<>> THEN <<>>
  ELSE IF Len(parts) = 1 THEN parts[1]
  ELSE parts[1] \o <<sep>> \o join(Tail(parts), sep)

Digit(d) ==
  CASE d = 0 -> "0" [] d = 1 -> "1" [] d = 2 -> "2" [] d = 3 -> "3"
    [] d = 4 -> "4" [] d = 5 -> "5" [] d = 6 -> "6" [] d = 7 -> "7"
    [] d = 8 -> "8" [] d = 9 -> "9"

RECURSIVE toString(_)
toString(n) ==
  IF n < 0 THEN <<"-">> \o toString(0 - n)
  ELSE IF n < 10 THEN <<Digit(n)>>
  ELSE toString(n \div 10) \o <<Digit(n % 10)>>

\* Number.prototype.toFixed(2) of the millisecond value us / 1000, us >= 0:
\* the nearest multiple of 0.01, the larger one on a tie.
toFixed2(us) ==
  LET h == (us + 5) \div 10
  IN  toString(h \div 100) \o <<".">> \o <<Digit((h % 100) \div 10), Digit(h % 10)>>

(***************************************************************************)
(* Trace events                                                            *)
(***************************************************************************)
\* ph, name, cat, url: strings (<<>> when absent); hasDur/dur: event.dur;
\* tid: event.tid; isNull: the array element is null, not an object.
Ev(ph, hasDur, dur, tid, name, cat, url) ==
  [ph |-> ph, hasDur |-> hasDur, dur |-> dur, tid |-> tid,
   name |-> name, cat |-> cat, url |-> url, isNull |-> FALSE]

NullEvent ==
  [ph |-> <<>>, hasDur |-> FALSE, dur |-> 0, tid |-> 0,
   name |-> <<>>, cat |-> <<>>, url |-> <<>>, isNull |-> TRUE]

(***************************************************************************)
(* Event classifier                                                        *)
(***************************************************************************)
tbtCategories ==
  << <<"d","e","v","t","o","o","l","s",".","t","i","m","e","l","i","n","e">>,
     <<"l","o","a","d","i","n","g">>,
     <<"s","c","r","i","p","t","i","n","g">>,
     <<"r","e","n","d","e","r","i","n","g">>,
     <<"p","a","i","n","t","i","n","g">>,
     <<"v","8">>,
     <<"v","8",".","e","x","e","c","u","t","e">>,
     <<"b","l","i","n","k">>,
     <<"b","e","n","c","h","m","a","r","k">>,
     <<"d","i","s","a","b","l","e","d","-","b","y","-","d","e","f","a","u","l","t","-","d","e","v","t","o","o","l","s",".","t","i","m","e","l","i","n","e">> >>

tbtTaskTypes ==
  << <<"S","c","r","i","p","t">>,
     <<"E","v","a","l","u","a","t","e","S","c","r","i","p","t">>,
     <<"V","8",".","C","o","m","p","i","l","e","S","c","r","i","p","t">>,
     <<"V","8",".","C","o","m","p","i","l","e","C","o","d","e">>,
     <<"V","8",".","C","o","m","p","i","l","e","I","g","n","i","t","i","o","n">>,
     <<"V","8",".","C","o","m","p","i","l","e","E","v","a","l">>,
     <<"F","u","n","c","t","i","o","n","C","a","l","l">>,
     <<"v","8",".","c","a","l","l","F","u","n","c","t","i","o","n">>,
     <<"T","i","m","e","r","F","i","r","e">>,
     <<"E","v","e","n","t","D","i","s","p","a","t","c","h">>,
     <<"R","u","n","T","a","s","k">>,
     <<"L","a","y","o","u","t">>,
     <<"U","p","d","a","t","e","L","a","y","o","u","t","T","r","e","e">>,
     <<"R","e","c","a","l","c","u","l","a","t","e","S","t","y","l","e","s">>,
     <<"P","a","r","s","e","H","T","M","L">>,
     <<"P","a","r","s","e","A","u","t","h","o","r","S","t","y","l","e","S","h","e","e","t">>,
     <<"S","t","y","l","e","R","e","c","a","l","c","u","l","a","t","i","o","n">>,
     <<"U","p","d","a","t","e","L","a","y","e","r">>,
     <<"L","a","y","e","r","i","z","e">>,
     <<"P","a","i","n","t">>,
     <<"C","o","m","p","o","s","i","t","e","L","a","y","e","r","s">>,
     <<"U","p","d","a","t","e","L","a","y","e","r","T","r","e","e">>,
     <<"P","r","e","P","a","i","n","t">>,
     <<"X","H","R","R","e","a","d","y","S","t","a","t","e","C","h","a","n","g","e">>,
     <<"R","e","s","o","u","r","c","e","S","e","n","d","R","e","q","u","e","s","t">>,
     <<"R","e","s","o","u","r","c","e","R","e","c","e","i","v","e","R","e","s","p","o","n","s","e">>,
     <<"R","e","s","o","u","r","c","e","F","i","n","i","s","h">> >>

MainThreadStr == <<"M","a","i","n","T","h","r","e","a","d">>
DevtoolsTimelineStr == <<"d","e","v","t","o","o","l","s",".","t","i","m","e","l","i","n","e">>

containsAny(str, patterns) ==
  /\ str # <<>>
  /\ \E k \in 1..Len(patterns) :
        includes(toLowerCase(str), toLowerCase(patterns[k]))

\* event.tid === 1 || event.name?.includes('MainThread') ||
\* event.cat?.includes('devtools.timeline')
isMainThreadEvent(e) ==
  \/ e.tid = 1
  \/ includes(e.name, MainThreadStr)
  \/ includes(e.cat, DevtoolsTimelineStr)

\* event.cat && tbtCategories.some(cat => event.cat.split(',').some(c =>
\*     c.trim().toLowerCase().includes(cat.toLowerCase())))
categoryMatches(e) ==
  /\ e.cat # <<>>
  /\ \E k \in 1..Len(tbtCategories) :
        LET cs == split(e.cat, ",")
        IN  \E j \in 1..Len(cs) :
               includes(toLowerCase(trim(cs[j])), toLowerCase(tbtCategories[k]))

\* the variant a case-sensitive category comparison would give
isPotentialTBTTaskCaseSensitive(e) ==
  /\ e.ph = <<"X">>
  /\ e.hasDur /\ e.dur # 0
  /\ isMainThreadEvent(e)
  /\ \/ /\ e.cat # <<>>
        /\ \E k \in 1..Len(tbtCategories) :
              LET cs == split(e.cat, ",")
              IN  \E j \in 1..Len(cs) : includes(trim(cs[j]), tbtCategories[k])
     \/ (e.name # <<>> /\ containsAny(e.name, tbtTaskTypes))

\* the variant without the phase test
isPotentialTBTTaskAnyPhase(e) ==
  /\ e.hasDur /\ e.dur # 0
  /\ isMainThreadEvent(e)
  /\ (categoryMatches(e) \/ (e.name # <<>> /\ containsAny(e.name, tbtTaskTypes)))

isPotentialTBTTask(e) ==
  /\ e.ph = <<"X">>
  /\ e.hasDur /\ e.dur # 0
  /\ isMainThreadEvent(e)
  /\ (categoryMatches(e) \/ (e.name # <<>> /\ containsAny(e.name, tbtTaskTypes)))

(***************************************************************************)
(* Blocking time, in microseconds (1000 * the source's milliseconds)       *)
(***************************************************************************)
\* the variant without the 50 ms guard
calculateBlockingTimeUnguarded(e) == e.dur - 50 * 1000

calculateBlockingTime(e) ==
  IF e.dur > 50 * 1000 THEN e.dur - 50 * 1000 ELSE 0

(***************************************************************************)
(* Map: an insertion-ordered JavaScript Map, keys[i] |-> vals[i]           *)
(***************************************************************************)
EmptyMap == [keys |-> <<>>, vals |-> <<>>]

MapHas(m, k) == \E i \in 1..Len(m.keys) : m.keys[i] = k

MapGet(m, k) == m.vals[CHOOSE i \in 1..Len(m.keys) : m.keys[i] = k]

MapSet(m, k, v) ==
  IF MapHas(m, k)
  THEN [m EXCEPT !.vals[CHOOSE i \in 1..Len(m.keys) : m.keys[i] = k] = v]
  ELSE [keys |-> Append(m.keys, k), vals |-> Append(m.vals, v)]

(***************************************************************************)
(* Task aggregator                                                         *)
(***************************************************************************)
UnknownTaskStr == <<"U","n","k","n","o","w","n"," ","T","a","s","k">>
UnknownStr == <<"u","n","k","n","o","w","n">>

getEventKey(e) == IF e.name # <<>> THEN e.name ELSE UnknownTaskStr

getEventUrl(e) == e.url

\* `${name}|${url}`
uniqueKeyOf(name, url) == name \o <<"|">> \o url

\* the body of events.forEach in processTraceEvents
processEvent(m, e) ==
  IF isPotentialTBTTask(e)
  THEN LET key == getEventKey(e)
           url == getEventUrl(e)
           uniqueKey == uniqueKeyOf(key, url)
           task == IF MapHas(m, uniqueKey) THEN MapGet(m, uniqueKey)
                   ELSE [name |-> key, url |-> url, blockingTime |-> 0,
                         totalDuration |-> 0, occurrences |-> 0,
                         category |-> IF e.cat # <<>> THEN e.cat ELSE UnknownStr]
       IN  MapSet(m, uniqueKey,
                  [task EXCEPT !.blockingTime = @ + calculateBlockingTime(e),
                               !.totalDuration = @ + e.dur,
                               !.occurrences = @ + 1])
  ELSE m

RECURSIVE forEachEvent(_, _)
forEachEvent(m, evs) ==
  IF evs = <<>> THEN m ELSE forEachEvent(processEvent(m, Head(evs)), Tail(evs))

\* reading event.ph of a null array element throws a TypeError
processTraceEventsThrows(evs) == \E i \in 1..Len(evs) : evs[i].isNull

processTraceEvents(evs) == forEachEvent(EmptyMap, evs).vals

(***************************************************************************)
(* Report merger.  A report is a sequence of rows, a row a sequence of     *)
(* cells, row 1 the header (existingReport[0] of the source); cell j of    *)
(* the source is element j + 1 here.                                       *)
(***************************************************************************)
YesStr == <<"Y","e","s">>
NoStr == <<"N","o">>
MinusOneStr == <<"-","1">>

FixedHeader ==
  << <<"Task Name">>, <<"URL">>, <<"Category">>, <<"Has Long Tasks">> >>

\* `Run ${n} (Blocking Time)`, `Run ${n} (Total Duration)`, `Run ${n} (Occurrences)`
RunHeader(n) ==
  << <<"Run ">> \o toString(n) \o <<" (Blocking Time)">>,
     <<"Run ">> \o toString(n) \o <<" (Total Duration)">>,
     <<"Run ">> \o toString(n) \o <<" (Occurrences)">> >>

hasLongTasks(task) == IF task.blockingTime > 0 THEN YesStr ELSE NoStr

runCells(task) ==
  << toFixed2(task.blockingTime), toFixed2(task.totalDuration),
     toString(task.occurrences) >>

absentCells == <<MinusOneStr, MinusOneStr, MinusOneStr>>

\* the report of a first run: header, then one row per task
firstReport(tks) ==
  <<FixedHeader \o RunHeader(1)>> \o
  [i \in 1..Len(tks) |->
     <<tks[i].name, tks[i].url, tks[i].category, hasLongTasks(tks[i])>>
       \o runCells(tks[i])]

\* the variant that numbers the new run by the count of earlier runs
runCountOfOffByOne(headerRow) == ((Len(headerRow) - 4) \div 3) - 1

\* Math.floor((headerRow.length - 4) / 3)
runCountOf(headerRow) == (Len(headerRow) - 4) \div 3

RECURSIVE buildTaskMap(_, _, _)
buildTaskMap(m, rep, i) ==
  IF i > Len(rep) THEN m
  ELSE buildTaskMap(MapSet(m, uniqueKeyOf(rep[i][1], rep[i][2]), i), rep, i + 1)

\* the variant that never finds an existing row
isNewTaskAlways(taskMap, taskKey) == TRUE

\* taskMap.get(taskKey) === undefined
isNewTask(taskMap, taskKey) == ~MapHas(taskMap, taskKey)

RECURSIVE repeatAbsent(_)
repeatAbsent(n) == IF n <= 0 THEN <<>> ELSE absentCells \o repeatAbsent(n - 1)

newRow(task, runCount) ==
  <<task.name, task.url, task.category, hasLongTasks(task)>>
    \o repeatAbsent(runCount)

\* the variant that recomputes the flag from the current run alone
markLongTasksOverwrite(row, task) == [row EXCEPT ![4] = hasLongTasks(task)]

\* if (task.blockingTime > 0) existingReport[rowIndex][3] = 'Yes'
markLongTasks(row, task) ==
  IF task.blockingTime > 0 THEN [row EXCEPT ![4] = YesStr] ELSE row

\* the body of tasks.forEach in updateReport;
\* st = [report, taskMap, updatedTasks]
mergeTask(st, task, runCount) ==
  LET taskKey == uniqueKeyOf(task.name, task.url)
      fresh == isNewTask(st.taskMap, taskKey)
      rowIndex == IF fresh THEN Len(st.report) + 1 ELSE MapGet(st.taskMap, taskKey)
      rep1 == IF fresh
              THEN Append(st.report, newRow(task, runCount))
              ELSE [st.report EXCEPT ![rowIndex] = markLongTasks(@, task)]
      map1 == IF fresh THEN MapSet(st.taskMap, taskKey, rowIndex) ELSE st.taskMap
  IN  [report |-> [rep1 EXCEPT ![rowIndex] = @ \o runCells(task)],
       taskMap |-> map1,
       updatedTasks |-> st.updatedTasks \cup {taskKey}]

RECURSIVE forEachTask(_, _, _)
forEachTask(st, tks, runCount) ==
  IF tks = <<>> THEN st
  ELSE forEachTask(mergeTask(st, Head(tks), runCount), Tail(tks), runCount)

\* the variant that leaves the rows of absent tasks as they are
fillAbsentNothing(rep, taskMap, updatedTasks, i) == rep

\* taskMap.forEach: push '-1','-1','-1' on the row of every key not updated
RECURSIVE fillAbsent(_, _, _, _)
fillAbsent(rep, taskMap, updatedTasks, i) ==
  IF i > Len(taskMap.keys) THEN rep
  ELSE fillAbsent(
         IF taskMap.keys[i] \in updatedTasks THEN rep
         ELSE [rep EXCEPT ![taskMap.vals[i]] = @ \o absentCells],
         taskMap, updatedTasks, i + 1)

updateReport(existingReport, tks) ==
  IF Len(existingReport) = 0
  THEN firstReport(tks)
  ELSE LET headerRow == existingReport[1]
           runCount == runCountOf(headerRow)
           nextRunNumber == runCount + 1
           withHeader == [existingReport EXCEPT
                            ![1] = headerRow \o RunHeader(nextRunNumber)]
           st == forEachTask(
                   [report |-> withHeader,
                    taskMap |-> buildTaskMap(EmptyMap, existingReport, 2),
                    updatedTasks |-> {}],
                   tks, runCount)
       IN  fillAbsent(st.report, st.taskMap, st.updatedTasks, 1)

(***************************************************************************)
(* Report file                                                             *)
(***************************************************************************)
parseCSV(content) ==
  IF trim(content) = <<>> THEN <<>>
  ELSE LET lines == split(trim(content), "\n")
       IN  [i \in 1..Len(lines) |-> split(lines[i], "\t")]

\* report.map(row => row.join('\t')).join('\n')
reportContent(rep) ==
  join([i \in 1..Len(rep) |-> join(rep[i], "\t")], "\n")

\* the file after writeReport: written only if the content differs
writeReport(fileExists, content, rep) ==
  LET existingContent == IF fileExists THEN content ELSE <<>>
      newContent == reportContent(rep)
  IN  IF newContent # existingContent
      THEN [exists |-> TRUE, content |-> newContent]
      ELSE [exists |-> fileExists, content |-> content]

(***************************************************************************)
(* analyzeTrace.  A trace file: exists; json in                            *)
(*   "invalid"  the content is not JSON                                    *)
(*   "null"     JSON null (falsy)                                          *)
(*   "scalar"   an object or number without a traceEvents array           *)
(*   "array"    a bare array of events                                     *)
(*   "object"   an object whose traceEvents is an array of events.         *)
(* The result: how the run ended, the exit status, whether writeReport was *)
(* called, the report file afterwards, and the tasks and the report of the *)
(* merge when it was reached.                                              *)
(***************************************************************************)
Failed(st, fileExists, content) ==
  [status |-> st, exitCode |-> 1, wrote |-> FALSE, merged |-> FALSE,
   exists |-> fileExists, content |-> content, tasks |-> <<>>, report |-> <<>>]

\* the variant that writes the report before the events are processed
analyzeTraceWriteEarly(trace, fileExists, content) ==
  IF ~trace.exists THEN Failed("missing", fileExists, content)
  ELSE IF trace.json = "invalid" THEN Failed("badjson", fileExists, content)
  ELSE IF trace.json \notin {"array", "object"}
  THEN Failed("badshape", fileExists, content)
  ELSE
    LET existingReport == IF fileExists THEN parseCSV(content) ELSE <<>>
        tks == IF processTraceEventsThrows(trace.events) THEN <<>>
               ELSE processTraceEvents(trace.events)
        updatedReport == updateReport(existingReport, tks)
        file == writeReport(fileExists, content, updatedReport)
    IN  IF processTraceEventsThrows(trace.events)
        THEN [Failed("exception", file.exists, file.content) EXCEPT !.wrote = TRUE]
        ELSE [status |-> "ok", exitCode |-> 0, wrote |-> TRUE, merged |-> TRUE,
              exists |-> file.exists, content |-> file.content,
              tasks |-> tks, report |-> updatedReport]

analyzeTrace(trace, fileExists, content) ==
  IF ~trace.exists THEN Failed("missing", fileExists, content)
  ELSE IF trace.json = "invalid" THEN Failed("badjson", fileExists, content)
  ELSE IF trace.json \notin {"array", "object"}
  THEN Failed("badshape", fileExists, content)
  ELSE
    LET existingReport == IF fileExists THEN parseCSV(content) ELSE <<>>
    IN  IF processTraceEventsThrows(trace.events)
        THEN Failed("exception", fileExists, content)
        ELSE LET tks == processTraceEvents(trace.events)
                 updatedReport == updateReport(existingReport, tks)
                 file == writeReport(fileExists, content, updatedReport)
             IN  [status |-> "ok", exitCode |-> 0, wrote |-> TRUE, merged |-> TRUE,
                  exists |-> file.exists, content |-> file.content,
                  tasks |-> tks, report |-> updatedReport]

(***************************************************************************)
(* Inputs                                                                  *)
(***************************************************************************)
SeqsUpTo(S, n) == UNION {[1..k -> S] : k \in 0..n}

V8Str == <<"v","8">>
IdleStr == <<"i","d","l","e">>
RunTaskStr == <<"R","u","n","T","a","s","k">>

\* Events of the runs: all qualify (complete, thread 1, category v8).
\* ("a|b", "") and ("a", "b|") are different tasks, ("a", "") a third.
RunEvents ==
  { Ev(<<"X">>, TRUE, 150000, 1, <<"a","|","b">>, V8Str, <<>>),
    Ev(<<"X">>, TRUE, 30000, 1, <<"a","|","b">>, V8Str, <<>>),
    Ev(<<"X">>, TRUE, 30000, 1, <<"a">>, V8Str, <<"b","|">>),
    Ev(<<"X">>, TRUE, 150000, 1, <<"a">>, V8Str, <<>>) }

Trace(exists, json, evs) == [exists |-> exists, json |-> json, events |-> evs]

\* Traces that parse and hold at most n events: the runs that reach the merge.
Traces(n) ==
  { Trace(TRUE, "array", evs) : evs \in SeqsUpTo(RunEvents, n) }
  \cup { Trace(TRUE, "object", <<e>>) : e \in {x \in RunEvents : n >= 1} }

\* Traces of the runs that fail: a missing file, content that is not JSON,
\* JSON of the wrong shape, a null among the events.
FailingTraces ==
  { Trace(FALSE, "invalid", <<>>), Trace(TRUE, "invalid", <<>>),
    Trace(TRUE, "null", <<>>), Trace(TRUE, "scalar", <<>>),
    Trace(TRUE, "array", <<NullEvent>>) }
  \cup { Trace(TRUE, "object", <<e, NullEvent>>) : e \in RunEvents }

\* The failing traces and the traces of at most one event.
AnyTraces(n) ==
  FailingTraces
  \cup { Trace(TRUE, "array", <<>>) }
  \cup { Trace(TRUE, j, <<e>>) :
           j \in {"array", "object"}, e \in {x \in RunEvents : n >= 1} }

\* What the run is given, read off the trace file alone.
TraceKind(trace) ==
  IF ~trace.exists THEN "no file"
  ELSE IF trace.json = "invalid" THEN "not JSON"
  ELSE IF trace.json \in {"null", "scalar"} THEN "no event array"
  ELSE IF \E i \in 1..Len(trace.events) : trace.events[i].isNull
  THEN "null event"
  ELSE "events"

\* Events of the aggregator harness: qualifying and not, named and unnamed.
AggEvents ==
  { Ev(<<"X">>, TRUE, 150000, 1, <<"a","|","b">>, V8Str, <<>>),
    Ev(<<"X">>, TRUE, 30000, 1, <<"a">>, V8Str, <<"b","|">>),
    Ev(<<"X">>, TRUE, 60010, 1, <<"a">>, V8Str, <<"b","|">>),
    Ev(<<"X">>, TRUE, 50000, 1, <<>>, V8Str, <<"u">>),
    Ev(<<"B">>, TRUE, 150000, 1, <<"a">>, V8Str, <<"b","|">>),
    Ev(<<"X">>, TRUE, 150000, 1, <<"a">>, IdleStr, <<"b","|">>),
    Ev(<<"X">>, TRUE, 150000, 1, RunTaskStr, IdleStr, <<>>),
    Ev(<<"X">>, FALSE, 0, 1, <<"a">>, V8Str, <<>>) }

\* Events of the classifier harness.
ClassifyPhases == { <<"X">>, <<"B">>, <<>> }
ClassifyDurations ==
  { [hasDur |-> FALSE, dur |-> 0], [hasDur |-> TRUE, dur |-> 0],
    [hasDur |-> TRUE, dur |-> 49990], [hasDur |-> TRUE, dur |-> 50000],
    [hasDur |-> TRUE, dur |-> 50001], [hasDur |-> TRUE, dur |-> 150000] }
ClassifyTids == { 0, 1, 2 }
ClassifyNames ==
  { <<>>, <<"x">>, <<"M","a","i","n","T","h","r","e","a","d"," ","x">>,
    <<"m","a","i","n","t","h","r","e","a","d">>,
    <<"r","u","n","t","a","s","k">>, <<"m","y","P","A","I","N","T","e","r">> }
ClassifyCats ==
  { <<>>, IdleStr, <<"S","c","r","i","p","t","i","n","g">>,
    <<"x",","," ","S","C","R","I","P","T","I","N","G"," ">>,
    <<"d","e","v","t","o","o","l","s",".","t","i","m","e","l","i","n","e">>,
    <<"D","e","v","T","o","o","l","s",".","T","i","m","e","l","i","n","e">>,
    <<"i","d","l","e",",","c","c">> }

ClassifyEvents ==
  { Ev(ph, d.hasDur, d.dur, tid, name, cat, <<>>) :
      ph \in ClassifyPhases, d \in ClassifyDurations, tid \in ClassifyTids,
      name \in ClassifyNames, cat \in ClassifyCats }

insertAt(evs, i, e) == SubSeq(evs, 1, i) \o <<e>> \o SubSeq(evs, i + 1, Len(evs))

(***************************************************************************)
(* The program: a sequence of analyzeTrace runs on one report file         *)
(***************************************************************************)
Idle ==
  /\ events = <<>> /\ extra = NullEvent /\ pos = 0
  /\ tasks = <<>> /\ tasksPlus = <<>>
  /\ event = NullEvent /\ verdict = FALSE /\ blocking = 0

\* no report yet: the file is absent or empty
Init ==
  /\ diskExists \in BOOLEAN
  /\ disk = <<>>
  /\ report = <<>>
  /\ runs = <<>>
  /\ input = "none" /\ status = "none" /\ exitCode = 0 /\ wrote = FALSE
  /\ pc = "run"
  /\ Idle

RECURSIVE SumOccurrences(_)
SumOccurrences(tks) ==
  IF tks = <<>> THEN 0 ELSE Head(tks).occurrences + SumOccurrences(Tail(tks))

RECURSIVE EventsSeen(_)
EventsSeen(rs) ==
  IF rs = <<>> THEN 0 ELSE SumOccurrences(Head(rs)) + EventsSeen(Tail(rs))

Run(trace) ==
  /\ pc = "run"
  /\ Len(runs) < MaxRuns
  /\ \E o \in {analyzeTrace(trace, diskExists, disk)} :
        /\ input' = TraceKind(trace)
        /\ status' = o.status
        /\ exitCode' = o.exitCode
        /\ wrote' = o.wrote
        /\ diskExists' = o.exists
        /\ disk' = o.content
        /\ report' = IF o.merged THEN o.report ELSE report
        /\ runs' = IF o.merged THEN Append(runs, o.tasks) ELSE runs
  /\ UNCHANGED <<events, extra, pos, tasks, tasksPlus, event, verdict, blocking, pc>>

\* a run on a trace that parses: read the report, merge, write
AnalyzeTrace == \E trace \in Traces(MaxTotalEvents - EventsSeen(runs)) : Run(trace)

Next == AnalyzeTrace

Spec == Init /\ [][Next]_vars

\* a run on any trace, the failing ones included
AnalyzeAnyTrace ==
  \E trace \in AnyTraces(MaxTotalEvents - EventsSeen(runs)) : Run(trace)

RunNext == AnalyzeAnyTrace

RunSpec == Init /\ [][RunNext]_vars

(***************************************************************************)
(* processTraceEvents applied to bounded event sequences                   *)
(***************************************************************************)
NoRun ==
  /\ diskExists = FALSE /\ disk = <<>> /\ report = <<>> /\ runs = <<>>
  /\ input = "none" /\ status = "none" /\ exitCode = 0 /\ wrote = FALSE

AggInit ==
  /\ NoRun
  /\ events \in SeqsUpTo(AggEvents, MaxEvents)
  /\ extra \in AggEvents
  /\ pos \in 0..Len(events)
  /\ tasks = <<>> /\ tasksPlus = <<>>
  /\ event = NullEvent /\ verdict = FALSE /\ blocking = 0
  /\ pc = "input"

Aggregate ==
  /\ pc = "input"
  /\ tasks' = processTraceEvents(events)
  /\ tasksPlus' = processTraceEvents(insertAt(events, pos, extra))
  /\ pc' = "done"
  /\ UNCHANGED <<diskExists, disk, report, runs, input, status, exitCode, wrote,
                 events, extra, pos, event, verdict, blocking>>

AggNext == Aggregate

AggSpec == AggInit /\ [][AggNext]_vars

(***************************************************************************)
(* isPotentialTBTTask and calculateBlockingTime applied to single events   *)
(***************************************************************************)
ClassifyInit ==
  /\ NoRun
  /\ events = <<>> /\ extra = NullEvent /\ pos = 0
  /\ tasks = <<>> /\ tasksPlus = <<>>
  /\ event \in ClassifyEvents
  /\ verdict = FALSE /\ blocking = 0
  /\ pc = "input"

Classify ==
  /\ pc = "input"
  /\ verdict' = isPotentialTBTTask(event)
  /\ blocking' = calculateBlockingTime(event)
  /\ pc' = "done"
  /\ UNCHANGED <<diskExists, disk, report, runs, input, status, exitCode, wrote,
                 events, extra, pos, tasks, tasksPlus, event>>

ClassifyNext == Classify

ClassifySpec == ClassifyInit /\ [][ClassifyNext]_vars

(***************************************************************************)
(* Properties                                                              *)
(***************************************************************************)
DataRows == 2..Len(report)

\* the three cells of run r in a data row
CellsOfRun(row, r) == SubSeq(row, 4 + 3 * (r - 1) + 1, 4 + 3 * r)

\* C1: in every report reached by sequential merges from an empty report,
\* every data row has exactly as many cells as the header row.
C1_RowsAsWideAsHeader ==
  \A i \in DataRows : Len(report[i]) = Len(report[1])

\* two merges done; one row is new in run 2 (a "-1" triple for run 1) and
\* another row was absent from run 2 (a trailing "-1" triple)
C1_Witness ==
  /\ Len(runs) >= 2
  /\ \E i, j \in DataRows :
        /\ i # j
        /\ CellsOfRun(report[i], 1) = <<MinusOneStr, MinusOneStr, MinusOneStr>>
        /\ CellsOfRun(report[j], Len(runs)) = <<MinusOneStr, MinusOneStr, MinusOneStr>>

\* C2: no two data rows of the report share the same (Task Name, URL) pair.
C2_RowIdentityUnique ==
  \A i, j \in DataRows :
     i # j => <<report[i][1], report[i][2]>> # <<report[j][1], report[j][2]>>

\* a row that existed after run 1 was found again and updated by run 2,
\* next to another row
C2_Witness ==
  /\ Len(runs) >= 2
  /\ Len(report) >= 3
  /\ \E i \in DataRows :
        /\ report[i][5] # MinusOneStr
        /\ report[i][8] # MinusOneStr

\* C3: once the "Has Long Tasks" cell of a data row is "Yes", the row is
\* still there with the same name and URL, and its cell is still "Yes",
\* after every later merge.
C3_HasLongTasksMonotonic ==
  [][\A i \in DataRows :
        report[i][4] = YesStr =>
          /\ Len(report') >= i
          /\ report'[i][1] = report[i][1]
          /\ report'[i][2] = report[i][2]
          /\ report'[i][4] = YesStr]_vars

\* a row flagged "Yes" that a later run updated with zero blocking time and
\* that was absent from the run after it
C3_Witness ==
  /\ Len(runs) >= 3
  /\ \E i \in DataRows :
        /\ report[i][4] = YesStr
        /\ report[i][8] = <<"0", ".", "0", "0">>
        /\ report[i][11] = MinusOneStr

\* the header the specification describes for k runs
ExpectedHeaderCell(j) ==
  IF j = 1 THEN <<"Task Name">>
  ELSE IF j = 2 THEN <<"URL">>
  ELSE IF j = 3 THEN <<"Category">>
  ELSE IF j = 4 THEN <<"Has Long Tasks">>
  ELSE LET n == ((j - 5) \div 3) + 1
           c == (j - 5) % 3
       IN  <<"Run ">> \o toString(n) \o
           (IF c = 0 THEN <<" (Blocking Time)">>
            ELSE IF c = 1 THEN <<" (Total Duration)">>
            ELSE <<" (Occurrences)">>)

\* C8: after k >= 1 merges the header has 4 + 3k cells, the fixed prefix
\* followed by the triples of Run 1 .. Run k in order; a first merge with N
\* tasks yields N + 1 rows.
C8_HeaderOfKRuns ==
  Len(runs) >= 1 =>
    /\ Len(report[1]) = 4 + 3 * Len(runs)
    /\ \A j \in 1..Len(report[1]) : report[1][j] = ExpectedHeaderCell(j)
    /\ (Len(runs) = 1 => Len(report) = Len(runs[1]) + 1)

\* a header that has grown by the columns of a second and a third run
C8_Witness ==
  /\ Len(runs) >= 3
  /\ Len(report[1]) = 13
  /\ Len(report) >= 3

\* the cells the claim expects for run r in a row: the metrics of the task
\* of run r with the row's name and URL, "-1" three times without one
ExpectedCells(row, r) ==
  LET same == {k \in 1..Len(runs[r]) :
                 runs[r][k].name = row[1] /\ runs[r][k].url = row[2]}
  IN  IF same = {} THEN <<MinusOneStr, MinusOneStr, MinusOneStr>>
      ELSE LET t == runs[r][CHOOSE k \in same : TRUE]
           IN  <<toFixed2(t.blockingTime), toFixed2(t.totalDuration),
                 toString(t.occurrences)>>

\* C9: for every data row and every run r, the row's three cells of run r
\* are the metrics of the task of run r that has the row's (Task Name, URL),
\* and "-1","-1","-1" if run r had no such task.
C9_CellsAreTheRunsMetrics ==
  \A i \in DataRows : \A r \in 1..Len(runs) :
     /\ Len(report[i]) >= 4 + 3 * r
     /\ CellsOfRun(report[i], r) = ExpectedCells(report[i], r)

\* C7: a run whose trace file is missing, is not JSON, has no event array
\* or holds a null event ends with a non-zero status without calling
\* writeReport, and the report file is what it was before the run.
C7_FailureLeavesReportFile ==
  [][input' \in {"no file", "not JSON", "no event array", "null event"} =>
       /\ exitCode' # 0
       /\ ~wrote'
       /\ diskExists' = diskExists
       /\ disk' = disk]_vars

\* a run that failed on a null event when the report file already held a
\* merged report
C7_Witness ==
  /\ input = "null event"
  /\ exitCode = 1
  /\ diskExists
  /\ Len(runs) >= 1
  /\ disk # <<>>

(***************************************************************************)
(* Properties of the aggregator                                            *)
(***************************************************************************)
Qualifying(evs) == {i \in 1..Len(evs) : isPotentialTBTTask(evs[i])}

PairOf(e) == <<IF e.name = <<>> THEN UnknownTaskStr ELSE e.name, e.url>>

RECURSIVE SumOf(_, _, _)
SumOf(evs, idx, field) ==
  IF idx = {} THEN 0
  ELSE LET i == CHOOSE k \in idx : TRUE
       IN  (IF field = "blockingTime"
            THEN (IF evs[i].dur > 50000 THEN evs[i].dur - 50000 ELSE 0)
            ELSE IF field = "totalDuration" THEN evs[i].dur
            ELSE 1)
           + SumOf(evs, idx \ {i}, field)

\* C4: processTraceEvents returns exactly one Task per distinct (name, url)
\* pair among the qualifying events, holding the sums and the count of
\* exactly the qualifying events with that pair.
C4_OneTaskPerPair ==
  pc = "done" =>
    LET pairs == {PairOf(events[i]) : i \in Qualifying(events)}
    IN  /\ Len(tasks) = Cardinality(pairs)
        /\ \A p \in pairs :
              LET of == {i \in Qualifying(events) : PairOf(events[i]) = p}
              IN  \E k \in 1..Len(tasks) :
                     /\ <<tasks[k].name, tasks[k].url>> = p
                     /\ tasks[k].blockingTime = SumOf(events, of, "blockingTime")
                     /\ tasks[k].totalDuration = SumOf(events, of, "totalDuration")
                     /\ tasks[k].occurrences = Cardinality(of)

NoTaskTypeIn(name) ==
  \A k \in 1..Len(tbtTaskTypes) :
     \A i \in 1..Len(name) : \A j \in i..Len(name) :
        toLowerCase(SubSeq(name, i, j)) # toLowerCase(tbtTaskTypes[k])

\* C10 as stated: adding an event whose phase is not 'X', or whose category
\* is "idle", leaves the task list unchanged.
C10_NonCompleteOrIdleAddsNothing ==
  (pc = "done" /\ (extra.ph # <<"X">> \/ extra.cat = IdleStr))
    => tasksPlus = tasks

\* C10 amended: adding an event whose phase is not 'X', or whose category is
\* "idle" and whose name contains none of the task-type substrings, leaves
\* the task list unchanged.
C10_NonQualifyingAddsNothing ==
  (pc = "done" /\ (\/ extra.ph # <<"X">>
                   \/ (extra.cat = IdleStr /\ NoTaskTypeIn(extra.name))))
    => tasksPlus = tasks

\* an "idle" event on thread 1 with a duration, inserted in the middle of
\* two events that make tasks
C10_Witness ==
  /\ pc = "done"
  /\ extra.cat = IdleStr /\ extra.ph = <<"X">> /\ extra.hasDur /\ extra.tid = 1
  /\ NoTaskTypeIn(extra.name)
  /\ Len(events) = 2 /\ pos = 1
  /\ Len(tasks) >= 1

(***************************************************************************)
(* Properties of the classifier and of the blocking time                   *)
(***************************************************************************)
\* s contains p, letter case ignored
ContainsIgnoringCase(s, p) ==
  \E i \in 1..Len(s) : \E j \in i..Len(s) :
     toLowerCase(SubSeq(s, i, j)) = toLowerCase(p)

\* s contains p exactly
Contains(s, p) ==
  \E i \in 1..Len(s) : \E j \in i..Len(s) : SubSeq(s, i, j) = p

\* the comma-separated tokens of a category string, trimmed
CategoryTokens(cat) ==
  IF cat = <<>> THEN {}
  ELSE {trim(split(cat, ",")[k]) : k \in 1..Len(split(cat, ","))}

Condition1(e) == e.ph = <<"X">>
Condition2(e) == e.hasDur /\ e.dur # 0
Condition3(e) ==
  \/ e.tid = 1
  \/ Contains(e.name, MainThreadStr)
  \/ Contains(e.cat, DevtoolsTimelineStr)
Condition4(e) ==
  \/ \E tok \in CategoryTokens(e.cat) : \E k \in 1..Len(tbtCategories) :
        ContainsIgnoringCase(tok, tbtCategories[k])
  \/ \E k \in 1..Len(tbtTaskTypes) : ContainsIgnoringCase(e.name, tbtTaskTypes[k])

\* C5: isPotentialTBTTask is truthy iff the four conditions hold; it is
\* falsy without a duration or with a phase other than 'X'; it is truthy for
\* an event that passes (1)-(3) and has "scripting" in its category list in
\* any letter case.
C5_ClassifierIsTheFourConditions ==
  pc = "done" =>
    /\ verdict <=> (Condition1(event) /\ Condition2(event)
                      /\ Condition3(event) /\ Condition4(event))
    /\ ((~event.hasDur \/ event.ph # <<"X">>) => ~verdict)
    /\ ((Condition1(event) /\ Condition2(event) /\ Condition3(event)
           /\ ContainsIgnoringCase(event.cat, <<"s","c","r","i","p","t","i","n","g">>))
          => verdict)

\* an event off thread 1, main-thread by its name only, that qualifies by an
\* upper-case, space-padded "SCRIPTING" token only
C5_Witness ==
  /\ pc = "done"
  /\ verdict
  /\ event.tid = 2
  /\ event.name = <<"M","a","i","n","T","h","r","e","a","d"," ","x">>
  /\ event.cat = <<"x",","," ","S","C","R","I","P","T","I","N","G"," ">>

\* C6: calculateBlockingTime is 0 when dur / 1000 <= 50 and dur / 1000 - 50
\* otherwise, and never negative (in microseconds: max(0, dur - 50000)).
C6_BlockingTimeAbove50ms ==
  (pc = "done" /\ event.hasDur) =>
    /\ blocking >= 0
    /\ (event.dur <= 50000 => blocking = 0)
    /\ (event.dur > 50000 => blocking = event.dur - 50000)

\* durations just under and just over the threshold have been computed
C6_Witness ==
  /\ pc = "done"
  /\ event.hasDur
  /\ event.dur = 50001
  /\ blocking = 1

====
